---------------------------- MODULE Spec2Model ----------------------------
(***************************************************************************)
(* Model of the browser-side carbon-footprint calculator                   *)
(* (staticfiles/js/carbon-calculator.js, class CarbonCalculator) and of    *)
(* the climate map (class ClimateMap of map.js).                           *)
(*                                                                         *)
(* JavaScript values are modelled as records [t, n, d]:                    *)
(*   t = "num"   a Number: the rational n/d (d > 0, lowest terms),         *)
(*               NaN as 0/0, +Infinity as 1/0, -Infinity as -1/0;          *)
(*   t = "fn"    a function, t = "obj" an object (what a lookup of an      *)
(*               inherited Object.prototype property yields);              *)
(*   t = "str"   a string produced by `+` on a non-number operand;         *)
(*   t = "undef" undefined;   t = "null" null.                             *)
(* Number arithmetic is exact rational arithmetic: the rounding of IEEE    *)
(* doubles and the sign of zero are not modelled.                          *)
(* Form field texts are sequences of one-character strings.                *)
(***************************************************************************)
EXTENDS Integers, Sequences, FiniteSets, TLC

VARIABLES
    form,                 \* texts of the fields of #carbonCalculatorForm
    emissions,            \* breakdown returned by the latest calculateEmissions
    liveEstimate,         \* text and class of the #liveEstimate badge
    resultDiv,            \* what #carbonResult shows
    suggestions,          \* categories of the cards in #suggestionsContainer
    alerts,               \* alerts appended to the displayed results
    chart,                \* this.chart and the charts drawn on #carbonChart
    carbonCalculatorData, \* localStorage item written by saveFormData
    carbonHistory,        \* localStorage item written by saveToLocalStorage
    inflight,             \* submissions awaiting the answer of the save endpoint
    clock,                \* the time Date.now() returns
    nSaved,               \* entries written to the history, counted up to 11
    saveLog,              \* what the latest saveToServer call to finish did
    currentData,          \* this.currentData of the climate map
    climateMarkers,       \* the markers in layerGroups.climateData
    loads,                \* answers awaited by loadClimateData calls, oldest first
    lastLoad,             \* answer to the most recently issued loadClimateData
    clicks,               \* map clicks awaiting fetchWeatherByCoordinates
    weatherPopup,         \* popup of the marker of the latest click to finish
    weatherLog            \* what the latest fetchWeatherByCoordinates call did

\* the state of the climate map (class ClimateMap)
mapVars == <<currentData, climateMarkers, loads, lastLoad, clicks,
             weatherPopup, weatherLog>>

vars == <<form, emissions, liveEstimate, resultDiv, suggestions, alerts,
          chart, carbonCalculatorData, carbonHistory, inflight, clock, nSaved,
          saveLog, currentData, climateMarkers, loads, lastLoad, clicks,
          weatherPopup, weatherLog>>

---------------------------------------------------------------------------
(* Bounds of the model *)

\* largest value of the millisecond clock read by Date.now()
MaxClock == 1
\* number of submissions whose remote request is pending at once
MaxInflight == 2
\* number of local saves made while the form is being edited
MaxPageSaves == 1
MaxLoads == 2
MaxClicks == 1

---------------------------------------------------------------------------
(* JavaScript values and Number arithmetic *)

Abs(x) == IF x < 0 THEN -x ELSE x

Sign(x) == IF x < 0 THEN -1 ELSE IF x > 0 THEN 1 ELSE 0

RECURSIVE Gcd(_, _)
Gcd(a, b) == IF b = 0 THEN a ELSE Gcd(b, a % b)

RECURSIVE Pow10(_)
Pow10(k) == IF k = 0 THEN 1 ELSE 10 * Pow10(k - 1)

\* the Number n/d in lowest terms; d = 0 gives NaN or an infinity
Num(n, d) ==
    IF d = 0 THEN [t |-> "num", n |-> Sign(n), d |-> 0]
    ELSE LET g == Gcd(Abs(n), Abs(d))
             s == IF d < 0 THEN -1 ELSE 1
         IN  [t |-> "num", n |-> s * (n \div g), d |-> Abs(d) \div g]

IntNum(n) == Num(n, 1)

NaN == Num(0, 0)
PosInf == Num(1, 0)
Fn == [t |-> "fn", n |-> 0, d |-> 0]
Obj == [t |-> "obj", n |-> 0, d |-> 0]
Str == [t |-> "str", n |-> 0, d |-> 0]
Undefined == [t |-> "undef", n |-> 0, d |-> 0]
Null == [t |-> "null", n |-> 0, d |-> 0]

IsNaN(v) == v.t = "num" /\ v.n = 0 /\ v.d = 0

IsFinite(v) == v.t = "num" /\ v.d # 0

\* ToNumber: undefined, functions and the strings that arise here are NaN
ToNumber(v) ==
    CASE v.t = "num" -> v
      [] v.t = "null" -> IntNum(0)
      [] OTHER -> NaN

\* ToBoolean
Truthy(v) ==
    CASE v.t = "num" -> v.n # 0
      [] v.t = "fn" -> TRUE
      [] v.t = "obj" -> TRUE
      [] v.t = "str" -> TRUE
      [] OTHER -> FALSE

\* a || b
Or(a, b) == IF Truthy(a) THEN a ELSE b

\* a * b
Mul(a, b) ==
    LET x == ToNumber(a)
        y == ToNumber(b)
    IN  Num(x.n * y.n, x.d * y.d)

\* a / b
Div(a, b) ==
    LET x == ToNumber(a)
        y == ToNumber(b)
    IN  Mul(x, Num(y.d, y.n))

\* a + b: string concatenation as soon as an operand is not a primitive number
Add(a, b) ==
    IF a.t \in {"fn", "obj", "str"} \/ b.t \in {"fn", "obj", "str"} THEN Str
    ELSE LET x == ToNumber(a)
             y == ToNumber(b)
         IN  IF x.d = 0 /\ y.d = 0
             THEN (IF x.n = y.n THEN x ELSE NaN)
             ELSE Num(x.n * y.d + y.n * x.d, x.d * y.d)

\* a < b
Lt(a, b) ==
    LET x == ToNumber(a)
        y == ToNumber(b)
    IN  /\ ~IsNaN(x)
        /\ ~IsNaN(y)
        /\ IF x.d # 0 /\ y.d # 0 THEN x.n * y.d < y.n * x.d
           ELSE IF x.d = 0 /\ y.d = 0 THEN x.n < y.n
           ELSE IF x.d = 0 THEN x.n < 0
           ELSE y.n > 0

\* a > b
Gt(a, b) == Lt(b, a)

\* obj[key] on an object literal: own properties first, then the properties
\* every object inherits from Object.prototype, else undefined
ObjectPrototypeMethods ==
    {"constructor", "toString", "toLocaleString", "valueOf", "hasOwnProperty",
     "isPrototypeOf", "propertyIsEnumerable", "__defineGetter__",
     "__defineSetter__", "__lookupGetter__", "__lookupSetter__"}

Lookup(table, key) ==
    IF key \in DOMAIN table THEN table[key]
    ELSE IF key \in ObjectPrototypeMethods THEN Fn
    ELSE IF key = "__proto__" THEN Obj
    ELSE Undefined

---------------------------------------------------------------------------
(* parseFloat and parseInt on the text of a form field.  The texts of the  *)
(* model are over the characters below; hexadecimal prefixes ("0x") do not *)
(* occur in them.                                                          *)

Digits == {"0", "1", "2", "3", "4", "5", "6", "7", "8", "9"}

DigitVal(c) ==
    CASE c = "0" -> 0 [] c = "1" -> 1 [] c = "2" -> 2 [] c = "3" -> 3
      [] c = "4" -> 4 [] c = "5" -> 5 [] c = "6" -> 6 [] c = "7" -> 7
      [] c = "8" -> 8 [] c = "9" -> 9

\* the text a missing field (undefined) is converted to before parsing
AbsentText == <<"u", "n", "d", "e", "f", "i", "n", "e", "d">>

InfinityText == <<"I", "n", "f", "i", "n", "i", "t", "y">>

\* first position at or after i that holds no white space
RECURSIVE SkipWhite(_, _)
SkipWhite(s, i) ==
    IF i <= Len(s) /\ s[i] = " " THEN SkipWhite(s, i + 1) ELSE i

\* number of consecutive digits of s starting at position i
RECURSIVE DigitRun(_, _)
DigitRun(s, i) ==
    IF i <= Len(s) /\ s[i] \in Digits THEN 1 + DigitRun(s, i + 1) ELSE 0

\* value of the k digits of s starting at position i, after the prefix acc
RECURSIVE DigitsValue(_, _, _, _)
DigitsValue(s, i, k, acc) ==
    IF k = 0 THEN acc
    ELSE DigitsValue(s, i + 1, k - 1, 10 * acc + DigitVal(s[i]))

HasPrefixAt(s, i, p) ==
    /\ i + Len(p) - 1 <= Len(s)
    /\ \A j \in 1..Len(p) : s[i + j - 1] = p[j]

\* parseFloat, last step: the exponent of k3 digits at position p3, if any,
\* scales the mantissa mant / 10^k2
ParseExponent(s, mant, k2, eneg, p3, k3) ==
    IF eneg THEN Num(mant, Pow10(k2) * Pow10(DigitsValue(s, p3, k3, 0)))
    ELSE Num(mant * Pow10(DigitsValue(s, p3, k3, 0)), Pow10(k2))

\* parseFloat after the mantissa, which ends before position p2: an "e" or
\* "E", an optional sign and digits form an exponent
ParseAfterMantissa(s, mant, k2, p2) ==
    IF p2 <= Len(s) /\ s[p2] \in {"e", "E"}
    THEN IF p2 + 1 <= Len(s) /\ s[p2 + 1] \in {"+", "-"}
         THEN ParseExponent(s, mant, k2, s[p2 + 1] = "-", p2 + 2,
                            DigitRun(s, p2 + 2))
         ELSE ParseExponent(s, mant, k2, FALSE, p2 + 1, DigitRun(s, p2 + 1))
    ELSE Num(mant, Pow10(k2))

\* parseFloat after the k1 integer digits at p1 and the k2 fraction digits
\* behind the point: no digit at all is NaN
ParseDigits(s, sgn, p1, k1, k2) ==
    IF k1 + k2 = 0 THEN NaN
    ELSE ParseAfterMantissa(
             s,
             sgn * DigitsValue(s, p1 + k1 + 1, k2, DigitsValue(s, p1, k1, 0)),
             k2,
             IF p1 + k1 <= Len(s) /\ s[p1 + k1] = "." THEN p1 + k1 + 1 + k2
             ELSE p1 + k1)

\* parseFloat after the sign: Infinity, or integer digits and a fraction
ParseUnsigned(s, sgn, p1, k1) ==
    IF HasPrefixAt(s, p1, InfinityText) THEN Num(sgn, 0)
    ELSE IF p1 + k1 <= Len(s) /\ s[p1 + k1] = "."
    THEN ParseDigits(s, sgn, p1, k1, DigitRun(s, p1 + k1 + 1))
    ELSE ParseDigits(s, sgn, p1, k1, 0)

\* parseFloat after the leading white space, which ends before position p0
ParseSigned(s, p0) ==
    IF p0 <= Len(s) /\ s[p0] \in {"+", "-"}
    THEN ParseUnsigned(s, IF s[p0] = "-" THEN -1 ELSE 1, p0 + 1,
                       DigitRun(s, p0 + 1))
    ELSE ParseUnsigned(s, 1, p0, DigitRun(s, p0))

\* parseFloat(text): the longest prefix that is a decimal literal, else NaN
parseFloat(s) == ParseSigned(s, SkipWhite(s, 1))

\* parseInt after the sign: the k1 decimal digits at position p1
ParseIntDigits(s, sgn, p1, k1) ==
    IF k1 = 0 THEN NaN ELSE IntNum(sgn * DigitsValue(s, p1, k1, 0))

\* parseInt after the leading white space, which ends before position p0
ParseIntSigned(s, p0) ==
    IF p0 <= Len(s) /\ s[p0] \in {"+", "-"}
    THEN ParseIntDigits(s, IF s[p0] = "-" THEN -1 ELSE 1, p0 + 1,
                        DigitRun(s, p0 + 1))
    ELSE ParseIntDigits(s, 1, p0, DigitRun(s, p0))

\* parseInt(text) with no radix: sign and leading decimal digits, else NaN
parseInt(s) == ParseIntSigned(s, SkipWhite(s, 1))

\* the decimal literal m / 10^k of the source text
Dec(m, k) == Num(m, Pow10(k))

---------------------------------------------------------------------------
(* The emissions estimator *)

\* this.emissionFactors
emissionFactors ==
    [transport |-> [petrol |-> Dec(12, 2), diesel |-> Dec(13, 2),
                    hybrid |-> Dec(8, 2), electric |-> Dec(5, 2),
                    none |-> IntNum(0)],
     electricity |-> Dec(5, 1),
     diet |-> [vegetarian |-> IntNum(1000), meat_light |-> IntNum(1500),
               meat_medium |-> IntNum(2000), meat_heavy |-> IntNum(3000)],
     waste |-> Dec(5, 1),
     flights |-> Dec(2, 1),
     public_transport |-> Dec(5, 2)]

renewableFactors ==
    [none |-> Dec(10, 1), some |-> Dec(7, 1), most |-> Dec(3, 1),
     all |-> Dec(1, 1)]

\* flights taken at 900 km/h
calculateTransportEmissionsFastFlights(carType, carKm, publicTransportKm, flightsHours) ==
    LET carEmissions ==
            Mul(Mul(carKm, IntNum(52)), Lookup(emissionFactors.transport, carType))
        publicTransportEmissions ==
            Mul(Mul(publicTransportKm, IntNum(52)), emissionFactors.public_transport)
        flightKm == Mul(flightsHours, IntNum(900))
        flightEmissions == Mul(flightKm, emissionFactors.flights)
    IN  Add(Add(carEmissions, publicTransportEmissions), flightEmissions)

calculateTransportEmissions(carType, carKm, publicTransportKm, flightsHours) ==
    LET carEmissions ==
            Mul(Mul(carKm, IntNum(52)), Lookup(emissionFactors.transport, carType))
        publicTransportEmissions ==
            Mul(Mul(publicTransportKm, IntNum(52)), emissionFactors.public_transport)
        flightKm == Mul(flightsHours, IntNum(800))
        flightEmissions == Mul(flightKm, emissionFactors.flights)
    IN  Add(Add(carEmissions, publicTransportEmissions), flightEmissions)

\* electricity of the whole household
calculateElectricityEmissionsUndivided(electricityKwh, renewableLevel, householdSize) ==
    LET factor == Or(Lookup(renewableFactors, renewableLevel), Dec(10, 1))
    IN  Mul(Mul(Mul(electricityKwh, IntNum(12)), emissionFactors.electricity),
            factor)

calculateElectricityEmissions(electricityKwh, renewableLevel, householdSize) ==
    LET factor == Or(Lookup(renewableFactors, renewableLevel), Dec(10, 1))
    IN  Div(Mul(Mul(Mul(electricityKwh, IntNum(12)), emissionFactors.electricity),
                factor),
            householdSize)

calculateDietEmissions(dietType) ==
    Or(Lookup(emissionFactors.diet, dietType), emissionFactors.diet.meat_medium)

\* waste taken as a monthly figure
calculateWasteEmissionsMonthly(wasteKg) ==
    Mul(Mul(wasteKg, IntNum(12)), emissionFactors.waste)

calculateWasteEmissions(wasteKg) ==
    Mul(Mul(wasteKg, IntNum(52)), emissionFactors.waste)

\* a <= b
Le(a, b) == Lt(a, b) \/ (~IsNaN(ToNumber(a)) /\ ToNumber(a) = ToNumber(b))

\* bands closed at their upper end
getEmissionLevelInclusive(perCapitaEmissions) ==
    IF Le(perCapitaEmissions, IntNum(2000))
    THEN [level |-> "low", label |-> "Low", color |-> "success"]
    ELSE IF Le(perCapitaEmissions, IntNum(5000))
    THEN [level |-> "moderate", label |-> "Moderate", color |-> "warning"]
    ELSE IF Le(perCapitaEmissions, IntNum(10000))
    THEN [level |-> "high", label |-> "High", color |-> "danger"]
    ELSE [level |-> "very_high", label |-> "Very High", color |-> "danger"]

getEmissionLevel(perCapitaEmissions) ==
    IF Lt(perCapitaEmissions, IntNum(2000))
    THEN [level |-> "low", label |-> "Low", color |-> "success"]
    ELSE IF Lt(perCapitaEmissions, IntNum(5000))
    THEN [level |-> "moderate", label |-> "Moderate", color |-> "warning"]
    ELSE IF Lt(perCapitaEmissions, IntNum(10000))
    THEN [level |-> "high", label |-> "High", color |-> "danger"]
    ELSE [level |-> "very_high", label |-> "Very High", color |-> "danger"]

\* parseFloat(field) || 0
NumericField(text) == Or(parseFloat(text), IntNum(0))

\* parseInt(data.household_size) with no default
HouseholdSizeFieldNoDefault(text) == parseInt(text)

\* parseInt(data.household_size) || 1
HouseholdSizeField(text) == Or(parseInt(text), IntNum(1))

\* Math.round
MathRound(v) ==
    LET x == ToNumber(v)
    IN  IF x.d = 0 THEN x ELSE IntNum((2 * x.n + x.d) \div (2 * x.d))

\* a category value rounded to whole kilograms
RoundedCategory(v) == IF IsFinite(v) THEN MathRound(v) ELSE v

\* a total computed from rounded category values
TotalOfRounded(transport, electricity, diet, waste) ==
    Add(Add(Add(RoundedCategory(transport), RoundedCategory(electricity)),
            RoundedCategory(diet)), RoundedCategory(waste))

\* totalEmissions
TotalOf(transport, electricity, diet, waste) ==
    Add(Add(Add(transport, electricity), diet), waste)

\* a per-capita figure that is the household total
PerCapitaOfHousehold(total, householdSize) == total

\* perCapitaEmissions
PerCapitaOf(total, householdSize) == Div(total, householdSize)

\* the object calculateEmissions returns
Breakdown(transport, electricity, diet, waste, total, perCapita, householdSize) ==
    [transport |-> transport,
     electricity |-> electricity,
     diet |-> diet,
     waste |-> waste,
     total |-> total,
     perCapita |-> perCapita,
     householdSize |-> householdSize,
     emissionLevel |-> getEmissionLevel(perCapita)]

\* calculateEmissions from the total on
BreakdownOfTotal(transport, electricity, diet, waste, total, householdSize) ==
    Breakdown(transport, electricity, diet, waste, total,
              PerCapitaOf(total, householdSize), householdSize)

\* calculateEmissions from the four category values on
BreakdownOfCategories(transport, electricity, diet, waste, householdSize) ==
    BreakdownOfTotal(transport, electricity, diet, waste,
                     TotalOf(transport, electricity, diet, waste),
                     householdSize)

\* this.form when the page has no #carbonCalculatorForm
NoForm == [absent |-> TRUE]

\* the default values calculateEmissions returns without a form
ZeroBreakdown ==
    [transport |-> IntNum(0),
     electricity |-> IntNum(0),
     diet |-> IntNum(0),
     waste |-> IntNum(0),
     total |-> IntNum(0),
     perCapita |-> IntNum(0),
     householdSize |-> IntNum(1),
     emissionLevel |-> [level |-> "low", label |-> "Low", color |-> "success"]]

\* calculateEmissions() with a form: data is the form's entries
EmissionsOfEntries(data) ==
    LET carKm == NumericField(data.car_km)
        publicTransportKm == NumericField(data.public_transport_km)
        electricityKwh == NumericField(data.electricity_kwh)
        wasteKg == NumericField(data.waste_kg)
        flightsHours == NumericField(data.flights_hours)
    IN  BreakdownOfCategories(
            calculateTransportEmissions(data.car_type, carKm,
                                        publicTransportKm, flightsHours),
            calculateElectricityEmissions(
                electricityKwh, data.renewable_energy,
                HouseholdSizeField(data.household_size)),
            calculateDietEmissions(data.diet_type),
            calculateWasteEmissions(wasteKg),
            HouseholdSizeField(data.household_size))

\* calculateEmissions(): data is this.form's entries, or NoForm
calculateEmissions(data) ==
    IF data = NoForm THEN ZeroBreakdown ELSE EmissionsOfEntries(data)

\* no chart has been drawn
NoChart == [ref |-> "null", live |-> 0, twice |-> FALSE]

\* the chart state after this.chart.destroy(), when this.chart is set
DestroyChart(c) ==
    IF c.ref = "live" THEN [c EXCEPT !.ref = "destroyed", !.live = c.live - 1]
    ELSE IF c.ref = "destroyed" THEN [c EXCEPT !.twice = TRUE]
    ELSE c

\* updateChart(emissions) on a page with the #carbonChart canvas: ref tells
\* what this.chart refers to, live counts the charts not destroyed, twice
\* tells whether destroy() was called on a destroyed chart
updateChart(c, e) ==
    IF Gt(e.total, IntNum(0))
    THEN [DestroyChart(c) EXCEPT !.ref = "live", !.live = DestroyChart(c).live + 1]
    ELSE DestroyChart(c)

\* a >= b
Ge(a, b) == Gt(a, b) \/ (~IsNaN(ToNumber(a)) /\ ToNumber(a) = ToNumber(b))

\* suggestions from the threshold on
generateSuggestionsInclusive(e) ==
    (IF Ge(e.transport, IntNum(2000)) THEN <<"Transport">> ELSE <<>>)
    \o (IF Ge(e.electricity, IntNum(1500)) THEN <<"Electricity">> ELSE <<>>)
    \o (IF Ge(e.diet, IntNum(2000)) THEN <<"Diet">> ELSE <<>>)
    \o <<"General">>

\* generateSuggestions(emissions): the categories of the suggestions pushed,
\* in the order of the pushes
generateSuggestions(e) ==
    (IF Gt(e.transport, IntNum(2000)) THEN <<"Transport">> ELSE <<>>)
    \o (IF Gt(e.electricity, IntNum(1500)) THEN <<"Electricity">> ELSE <<>>)
    \o (IF Gt(e.diet, IntNum(2000)) THEN <<"Diet">> ELSE <<>>)
    \o <<"General">>

---------------------------------------------------------------------------
(* Persistence of a calculation *)

\* length of the history kept by saveToLocalStorage: calcHistory.slice(0, 10)
HistoryLimit == 10

\* the count of written entries stops one past the limit
SavedCount == HistoryLimit + 1

\* what JSON.parse(JSON.stringify(v)) gives for the value of a property:
\* a non-finite Number becomes null, a function-valued or undefined property
\* is dropped and reads back as undefined
JsonValue(v) ==
    CASE v.t = "num" /\ v.d = 0 -> Null
      [] v.t = "fn" -> Undefined
      [] OTHER -> v

\* the entry saveToLocalStorage puts in front of the history
HistoryEntry(e, now, date) ==
    [id |-> now,
     date |-> date,
     total |-> e.total,
     perCapita |-> e.perCapita,
     level |-> e.emissionLevel.label,
     color |-> e.emissionLevel.color,
     breakdown |-> [transport |-> e.transport,
                    electricity |-> e.electricity,
                    diet |-> e.diet,
                    waste |-> e.waste],
     householdSize |-> e.householdSize]

\* an entry as it reads back from the serialized history
JsonEntry(r) ==
    [id |-> r.id,
     date |-> r.date,
     total |-> JsonValue(r.total),
     perCapita |-> JsonValue(r.perCapita),
     level |-> r.level,
     color |-> r.color,
     breakdown |-> [transport |-> JsonValue(r.breakdown.transport),
                    electricity |-> JsonValue(r.breakdown.electricity),
                    diet |-> JsonValue(r.breakdown.diet),
                    waste |-> JsonValue(r.breakdown.waste)],
     householdSize |-> JsonValue(r.householdSize)]

\* a write that replaces the newest entry
UnshiftOverwriting(h, entry) == <<entry>> \o (IF h = <<>> THEN h ELSE Tail(h))

\* calcHistory.unshift(entry)
Unshift(h, entry) == <<entry>> \o h

\* a slice that keeps one entry too many
SliceFrontOneMore(h, k) == SubSeq(h, 1, IF Len(h) < k + 1 THEN Len(h) ELSE k + 1)

\* calcHistory.slice(0, k)
SliceFront(h, k) == SubSeq(h, 1, IF Len(h) < k THEN Len(h) ELSE k)

\* the history stored by a saveToLocalStorage(e) whose storage calls succeed
SavedHistory(h, e, now, date) ==
    LET limitedHistory == SliceFront(Unshift(h, HistoryEntry(e, now, date)),
                                     HistoryLimit)
    IN  [i \in 1..Len(limitedHistory) |-> JsonEntry(limitedHistory[i])]

\* showSuccessAlert / showErrorAlert: the alert is appended to the
\* .carbon-result container, which exists once results are displayed
ShowAlert(shown, div, message) ==
    IF div = "results" THEN Append(shown, message) ELSE shown

---------------------------------------------------------------------------
(* Inputs *)

\* the form of the worked example of the estimator
ExampleForm ==
    [car_km |-> <<"2", "0">>,
     car_type |-> "petrol",
     public_transport_km |-> <<"0">>,
     flights_hours |-> <<"0">>,
     electricity_kwh |-> <<"2", "0", "0">>,
     renewable_energy |-> "none",
     diet_type |-> "meat_medium",
     waste_kg |-> <<"1", "0">>,
     household_size |-> <<"2">>]

\* a missing select value reads as undefined, which is the key "undefined"
AbsentKey == "undefined"

CarKmTexts == {<<"2", "0">>, <<>>, <<"-", "5">>, <<"1", "e", "2">>}
CarTypes == {"petrol", "diesel", "hybrid", "electric", "none", "bus"}
PublicTransportKmTexts == {<<"0">>, <<"1", "0">>}
FlightsHoursTexts == {<<"0">>, <<"1", "2", ".", "5">>, <<"5", "0">>}
ElectricityKwhTexts == {<<"2", "0", "0">>, AbsentText, InfinityText}
RenewableLevels == {"none", "some", "most", "all", "solar", "toString"}
DietTypes == {"meat_medium", "meat_heavy", AbsentKey, "constructor"}
WasteKgTexts == {<<"1", "0">>, <<" ", "0", ".", "0", "k", "g">>}
HouseholdSizeTexts ==
    {<<"2">>, <<"0">>, <<"-", "2">>, <<"3", ".", "9">>, <<"a", "b", "c">>}

\* the forms the estimator is applied to
FormInputs ==
    [car_km : CarKmTexts,
     car_type : CarTypes,
     public_transport_km : PublicTransportKmTexts,
     flights_hours : FlightsHoursTexts,
     electricity_kwh : ElectricityKwhTexts,
     renewable_energy : RenewableLevels,
     diet_type : DietTypes,
     waste_kg : WasteKgTexts,
     household_size : HouseholdSizeTexts]

\* a form whose breakdown holds NaN, -Infinity and a function
BrokenForm ==
    [ExampleForm EXCEPT !.car_type = "bus",
                        !.diet_type = "constructor",
                        !.electricity_kwh = InfinityText,
                        !.household_size = <<"-", "2">>]

\* a form whose transport, electricity and diet are 2000, 1500 and 2000
ThresholdForm ==
    [ExampleForm EXCEPT !.car_type = "none",
                        !.flights_hours = <<"1", "2", ".", "5">>,
                        !.electricity_kwh = <<"5", "0", "0">>]

\* a form whose transport, electricity and diet are above those values
AboveForm ==
    [ExampleForm EXCEPT !.flights_hours = <<"5", "0">>,
                        !.electricity_kwh = <<"5", "0", "0">>,
                        !.household_size = <<"0">>,
                        !.diet_type = "meat_heavy"]

\* the forms that are submitted
SubmitForms == {BrokenForm, ThresholdForm, AboveForm}

\* the form of the submissions whose saving is followed
SavedForms == {BrokenForm}

\* calculateEmissions() on each of the submitted forms, tabulated
SubmittedEmissions == [f \in SubmitForms |-> calculateEmissions(f)]

NoEmissions == [none |-> TRUE]
NoEstimate == [none |-> TRUE]
NoData == [none |-> TRUE]

\* no saveToServer call has finished yet
NoLog == [turn |-> 0, status |-> "none", local |-> <<>>]

---------------------------------------------------------------------------
(* Handlers *)

\* updateLiveEstimate(): the badge shows the rounded total, coloured by level
LiveEstimateOf(e) ==
    [text |-> MathRound(e.total), className |-> e.emissionLevel.color]

\* updateLiveEstimate(), the listener of the form's input and change events
updateLiveEstimate ==
    /\ emissions' = calculateEmissions(form)
    /\ liveEstimate' = LiveEstimateOf(emissions')
    /\ UNCHANGED <<form, resultDiv, suggestions, alerts, chart,
                   carbonCalculatorData, carbonHistory, inflight, clock,
                   nSaved, saveLog>>
    /\ UNCHANGED mapVars

\* an input listener that also ran saveFormData()
OnInputSaving(f) ==
    /\ form # NoForm
    /\ f # form
    /\ form' = f
    /\ emissions' = SubmittedEmissions[f]
    /\ liveEstimate' = LiveEstimateOf(emissions')
    /\ carbonCalculatorData' = f
    /\ UNCHANGED <<resultDiv, suggestions, alerts, chart, carbonHistory,
                   inflight, clock, nSaved, saveLog>>
    /\ UNCHANGED mapVars

\* the user edits the form to f and the input and change listeners run
\* updateLiveEstimate()
OnInput(f) ==
    /\ form # NoForm
    /\ f # form
    /\ form' = f
    /\ emissions' = SubmittedEmissions[f]
    /\ liveEstimate' = LiveEstimateOf(emissions')
    /\ UNCHANGED <<resultDiv, suggestions, alerts, chart, carbonCalculatorData,
                   carbonHistory, inflight, clock, nSaved, saveLog>>
    /\ UNCHANGED mapVars

\* calculateEmissions() called on a calculator that has no form
CallWithoutForm ==
    /\ form = NoForm
    /\ emissions' = calculateEmissions(form)
    /\ UNCHANGED <<form, liveEstimate, resultDiv, suggestions, alerts, chart,
                   carbonCalculatorData, carbonHistory, inflight, clock,
                   nSaved, saveLog>>
    /\ UNCHANGED mapVars

\* a handleSubmit that does not test this.form
handleSubmitUnguarded(storageOk) ==
    /\ storageOk => Len(inflight) < MaxInflight
    /\ emissions' = calculateEmissions(form)
    /\ alerts' = <<>>
    /\ IF storageOk
       THEN /\ carbonCalculatorData' = form
            /\ resultDiv' = "results"
            /\ suggestions' = generateSuggestions(emissions')
            /\ chart' = updateChart(chart, emissions')
            /\ inflight' = Append(inflight, emissions')
       ELSE /\ resultDiv' = "loading"
            /\ suggestions' = <<>>
            /\ UNCHANGED <<carbonCalculatorData, inflight, chart>>
    /\ UNCHANGED <<form, liveEstimate, carbonHistory, clock, nSaved, saveLog>>
    /\ UNCHANGED mapVars

\* handleSubmit(event) up to its await of the save request; without a form it
\* returns at once.  storageOk tells whether localStorage.setItem of
\* saveFormData succeeds; when it throws the handler ends with the loading
\* state on display, which has replaced the results, their suggestions and
\* their alerts.
handleSubmit(storageOk) ==
    IF form = NoForm THEN UNCHANGED vars
    ELSE
    /\ storageOk => Len(inflight) < MaxInflight
    /\ emissions' = SubmittedEmissions[form]
    /\ alerts' = <<>>
    /\ IF storageOk
       THEN /\ carbonCalculatorData' = form
            /\ resultDiv' = "results"
            /\ suggestions' = generateSuggestions(emissions')
            /\ chart' = updateChart(chart, emissions')
            /\ inflight' = Append(inflight, emissions')
       ELSE /\ resultDiv' = "loading"
            /\ suggestions' = <<>>
            /\ UNCHANGED <<carbonCalculatorData, inflight, chart>>
    /\ UNCHANGED <<form, liveEstimate, carbonHistory, clock, nSaved, saveLog>>
    /\ UNCHANGED mapVars

\* saveToLocalStorage(e).  storageOk tells whether the localStorage calls
\* succeed; Date.now() and new Date() read the clock at the same millisecond.
saveToLocalStorage(e, storageOk) ==
    /\ IF storageOk
       THEN /\ carbonHistory' = SavedHistory(carbonHistory, e, clock, clock)
            /\ nSaved' = IF nSaved < SavedCount THEN nSaved + 1 ELSE nSaved
            /\ alerts' = ShowAlert(alerts, resultDiv, "saved_browser")
       ELSE /\ carbonHistory' = carbonHistory
            /\ nSaved' = nSaved
            /\ alerts' = ShowAlert(alerts, resultDiv, "save_failed")

Remove(q, i) == SubSeq(q, 1, i - 1) \o SubSeq(q, i + 1, Len(q))

\* the outcome of one saveToLocalStorage call
LocalOutcome(storageOk) == IF storageOk THEN "stored" ELSE "failed"

\* the record of a finished saveToServer call: the kind of answer its request
\* got and the outcome of each saveToLocalStorage call it made; turn
\* alternates between 0 and 1 from one finished call to the next
Logged(status, local) ==
    [turn |-> 1 - saveLog.turn, status |-> status, local |-> local]

\* the request of submission i is answered with an OK status; jsonOk tells
\* whether response.json() succeeds
RemoteOk(i, jsonOk, storageOk) ==
    /\ i \in 1..Len(inflight)
    /\ inflight' = Remove(inflight, i)
    /\ IF jsonOk
       THEN /\ alerts' = ShowAlert(alerts, resultDiv, "saved_account")
            /\ saveLog' = Logged("ok", <<>>)
            /\ UNCHANGED <<carbonHistory, nSaved>>
       ELSE /\ saveToLocalStorage(inflight[i], storageOk)
            /\ saveLog' = Logged("ok", <<LocalOutcome(storageOk)>>)
    /\ UNCHANGED <<form, emissions, liveEstimate, resultDiv, suggestions,
                   chart, carbonCalculatorData, clock>>
    /\ UNCHANGED mapVars

\* a non-OK answer that is only logged to the console
RemoteNotOkNoFallback(i, storageOk) ==
    /\ i \in 1..Len(inflight)
    /\ inflight' = Remove(inflight, i)
    /\ saveLog' = Logged("not_ok", <<>>)
    /\ UNCHANGED <<form, emissions, liveEstimate, resultDiv, suggestions,
                   alerts, chart, carbonCalculatorData, carbonHistory, clock,
                   nSaved>>
    /\ UNCHANGED mapVars

\* the request of submission i is answered with a non-OK status
RemoteNotOk(i, storageOk) ==
    /\ i \in 1..Len(inflight)
    /\ inflight' = Remove(inflight, i)
    /\ saveToLocalStorage(inflight[i], storageOk)
    /\ saveLog' = Logged("not_ok", <<LocalOutcome(storageOk)>>)
    /\ UNCHANGED <<form, emissions, liveEstimate, resultDiv, suggestions,
                   chart, carbonCalculatorData, clock>>
    /\ UNCHANGED mapVars

\* a failed request that is sent again after the local save
RemoteThrowRetry(i, storageOk) ==
    /\ i \in 1..Len(inflight)
    /\ inflight' = Append(Remove(inflight, i), inflight[i])
    /\ saveToLocalStorage(inflight[i], storageOk)
    /\ saveLog' = Logged("throw", <<LocalOutcome(storageOk)>>)
    /\ UNCHANGED <<form, emissions, liveEstimate, resultDiv, suggestions,
                   chart, carbonCalculatorData, clock>>
    /\ UNCHANGED mapVars

\* the request of submission i fails (fetch rejects)
RemoteThrow(i, storageOk) ==
    /\ i \in 1..Len(inflight)
    /\ inflight' = Remove(inflight, i)
    /\ saveToLocalStorage(inflight[i], storageOk)
    /\ saveLog' = Logged("throw", <<LocalOutcome(storageOk)>>)
    /\ UNCHANGED <<form, emissions, liveEstimate, resultDiv, suggestions,
                   chart, carbonCalculatorData, clock>>
    /\ UNCHANGED mapVars

\* the 5 second timer of an alert removes it
AlertExpire ==
    /\ alerts # <<>>
    /\ alerts' = Tail(alerts)
    /\ UNCHANGED <<form, emissions, liveEstimate, resultDiv, suggestions,
                   chart, carbonCalculatorData, carbonHistory, inflight, clock,
                   nSaved, saveLog>>
    /\ UNCHANGED mapVars

\* time passes
Tick ==
    /\ clock < MaxClock
    /\ clock' = clock + 1
    /\ UNCHANGED <<form, emissions, liveEstimate, resultDiv, suggestions,
                   alerts, chart, carbonCalculatorData, carbonHistory,
                   inflight, nSaved, saveLog>>
    /\ UNCHANGED mapVars

---------------------------------------------------------------------------
(* The form across page loads *)

\* the controls of a form as the page's HTML gives them: a number input, a
\* select, a checkbox that starts unchecked, one that starts checked and a
\* group of two radio buttons
FormControls ==
    <<[name |-> "car_km", type |-> "number", value |-> "0",
       checked |-> FALSE],
      [name |-> "car_type", type |-> "select-one", value |-> "petrol",
       checked |-> FALSE],
      [name |-> "has_solar", type |-> "checkbox", value |-> "on",
       checked |-> FALSE],
      [name |-> "recycles", type |-> "checkbox", value |-> "on",
       checked |-> TRUE],
      [name |-> "diet_type", type |-> "radio", value |-> "vegetarian",
       checked |-> TRUE],
      [name |-> "diet_type", type |-> "radio", value |-> "meat_heavy",
       checked |-> FALSE]>>

\* the controls after the user has filled them in
FilledForm(km, car, solar, recycles, diet) ==
    [i \in 1..Len(FormControls) |->
        CASE i = 1 -> [FormControls[i] EXCEPT !.value = km]
          [] i = 2 -> [FormControls[i] EXCEPT !.value = car]
          [] i = 3 -> [FormControls[i] EXCEPT !.checked = solar]
          [] i = 4 -> [FormControls[i] EXCEPT !.checked = recycles]
          [] OTHER -> [FormControls[i] EXCEPT !.checked = (i = diet)]]

FilledForms ==
    {FilledForm(km, car, solar, recycles, diet) :
        km \in {"0", "120", "15000"}, car \in {"petrol", "diesel"},
        solar \in BOOLEAN, recycles \in BOOLEAN, diet \in {5, 6}}

\* element.type === 'checkbox' || element.type === 'radio'
Checkable(c) == c.type \in {"checkbox", "radio"}

\* the controls new FormData(form) has an entry for: a checkbox or a radio
\* button only while it is checked
Successful(c) == Checkable(c) => c.checked

\* the object saveFormData builds from formData.entries(): a later entry of
\* the same name replaces the earlier one
FormDataOf(f) ==
    LET entries == {i \in 1..Len(f) : Successful(f[i])}
    IN  [k \in {f[i].name : i \in entries} |->
            f[CHOOSE i \in entries :
                  /\ f[i].name = k
                  /\ \A j \in entries : f[j].name = k => j <= i].value]

\* this.form.querySelector(`[name="${key}"]`): the first control of the name
QuerySelector(f, key) ==
    CHOOSE i \in 1..Len(f) :
        /\ f[i].name = key
        /\ \A j \in 1..(i - 1) : f[j].name # key

\* the controls f after the forEach of restoreFormData over the keys of
\* data.  The values of data are strings, which JSON.stringify and
\* JSON.parse give back unchanged; a string assigned to checked counts as
\* true unless it is empty, and checking a radio button unchecks the others
\* of its group.
RestoredForm(f, data) ==
    [i \in 1..Len(f) |->
        IF f[i].name \notin DOMAIN data THEN f[i]
        ELSE LET q == QuerySelector(f, f[i].name)
                 v == data[f[i].name]
             IN  IF i = q
                 THEN IF Checkable(f[i])
                      THEN [f[i] EXCEPT !.checked = (v # "")]
                      ELSE [f[i] EXCEPT !.value = v]
                 ELSE IF /\ f[i].type = "radio"
                         /\ f[q].type = "radio"
                         /\ v # ""
                      THEN [f[i] EXCEPT !.checked = FALSE]
                      ELSE f[i]]

\* saveFormData() of a submit
saveFormData ==
    /\ carbonCalculatorData' = FormDataOf(form)
    /\ UNCHANGED <<form, emissions, liveEstimate, resultDiv, suggestions,
                   alerts, chart, carbonHistory, inflight, clock, nSaved,
                   saveLog>>
    /\ UNCHANGED mapVars

\* restoreFormData() of the next page load, which starts from the controls
\* of the page's HTML
restoreFormData ==
    /\ form' = IF carbonCalculatorData = NoData THEN FormControls
               ELSE RestoredForm(FormControls, carbonCalculatorData)
    /\ UNCHANGED <<emissions, liveEstimate, resultDiv, suggestions, alerts,
                   chart, carbonCalculatorData, carbonHistory, inflight,
                   clock, nSaved, saveLog>>
    /\ UNCHANGED mapVars

---------------------------------------------------------------------------
(* The climate map *)

\* nothing logged yet
NoWeather == [outcome |-> "none", source |-> "none"]

\* no loadClimateData call issued yet
NoLoad == [kind |-> "none", data |-> <<>>]

\* the map after the constructor: this.currentData = [], empty layer groups
InitMap ==
    /\ currentData = <<>>
    /\ climateMarkers = <<>>
    /\ loads = <<>>
    /\ lastLoad = NoLoad
    /\ clicks = <<>>
    /\ weatherPopup = "none"
    /\ weatherLog = NoWeather

\* records of /api/climate-data/latest/: two with a region, one whose region
\* lies on the equator (latitude 0) and one without a region
Nairobi == [region |-> [latitude |-> -1, longitude |-> 37], temperature |-> 24]
Mombasa == [region |-> [latitude |-> -4, longitude |-> 40], temperature |-> 29]
Nanyuki == [region |-> [latitude |-> 0, longitude |-> 37], temperature |-> 17]
NoRegion == [none |-> TRUE]
Unplaced == [region |-> NoRegion, temperature |-> 20]

\* what a loadClimateData call can get: a list of records, a JSON value that
\* is not a list, or an exception of fetch or of response.json()
ClimateAnswers ==
    {[kind |-> "list", data |-> <<>>],
     [kind |-> "list", data |-> <<Nairobi>>],
     [kind |-> "list", data |-> <<Mombasa, Unplaced, Nanyuki>>],
     [kind |-> "object", data |-> <<>>],
     [kind |-> "failed", data |-> <<>>]}

\* data.region && data.region.latitude && data.region.longitude
HasPlace(data) ==
    /\ data.region # NoRegion
    /\ data.region.latitude # 0
    /\ data.region.longitude # 0

\* the position of the marker of a record
MarkerOf(data) == <<data.region.latitude, data.region.longitude>>

RECURSIVE MarkersOf(_)
\* updateClimateMarkers(): the markers in layerGroups.climateData after
\* clearLayers() and the forEach over this.currentData
MarkersOf(list) ==
    IF list = <<>> THEN <<>>
    ELSE (IF HasPlace(Head(list)) THEN <<MarkerOf(Head(list))>> ELSE <<>>)
         \o MarkersOf(Tail(list))

\* loadClimateData() up to its await of the fetch, called by initializeMap,
\* by refreshMapData, by the moveend listener and by the 5-minute timer; a
\* is the answer the call will get
loadClimateData(a) ==
    /\ Len(loads) < MaxLoads
    /\ loads' = Append(loads, a)
    /\ lastLoad' = a
    /\ UNCHANGED <<currentData, climateMarkers, clicks, weatherPopup,
                   weatherLog>>
    /\ UNCHANGED <<form, emissions, liveEstimate, resultDiv, suggestions,
                   alerts, chart, carbonCalculatorData, carbonHistory,
                   inflight, clock, nSaved, saveLog>>

\* the rest of the loadClimateData call whose answer is loads[i]
ClimateDataArrives(i) ==
    /\ i \in 1..Len(loads)
    /\ loads' = Remove(loads, i)
    /\ IF loads[i].kind = "list"
       THEN /\ currentData' = loads[i].data
            /\ climateMarkers' =
                   IF Len(loads[i].data) > 0 THEN MarkersOf(loads[i].data)
                   ELSE climateMarkers
       ELSE /\ currentData' = <<>>
            /\ climateMarkers' = climateMarkers
    /\ UNCHANGED <<lastLoad, clicks, weatherPopup, weatherLog>>
    /\ UNCHANGED <<form, emissions, liveEstimate, resultDiv, suggestions,
                   alerts, chart, carbonCalculatorData, carbonHistory,
                   inflight, clock, nSaved, saveLog>>

\* what the request of fetchWeatherByCoordinates can come to: fetch rejects,
\* a non-OK status, or an OK status whose body is weather data, the JSON
\* value null, or no JSON at all
WeatherOutcomes == {"network_error", "not_ok", "ok_data", "ok_null", "ok_no_json"}

\* source of the value fetchWeatherByCoordinates(lat, lng) returns: the
\* parsed body, or getMockWeatherData(lat, lng) from the !response.ok branch
\* and from the catch block
fetchWeatherByCoordinates(outcome) ==
    CASE outcome = "ok_data" -> "api"
      [] outcome = "ok_null" -> "null"
      [] OTHER -> "mock"

\* the click listener of addMapClickHandler up to its await: a marker with
\* the loading popup is added
MapClick ==
    /\ Len(clicks) < MaxClicks
    /\ clicks' = Append(clicks, "loading")
    /\ UNCHANGED <<currentData, climateMarkers, loads, lastLoad, weatherPopup,
                   weatherLog>>
    /\ UNCHANGED <<form, emissions, liveEstimate, resultDiv, suggestions,
                   alerts, chart, carbonCalculatorData, carbonHistory,
                   inflight, clock, nSaved, saveLog>>

\* the rest of the click listener: createWeatherPopupForLocation reads
\* weatherData.timestamp, which throws on null, and the catch block binds
\* the "Could not load weather data" popup
WeatherArrives(i, outcome) ==
    /\ i \in 1..Len(clicks)
    /\ clicks' = Remove(clicks, i)
    /\ weatherLog' = [outcome |-> outcome,
                      source |-> fetchWeatherByCoordinates(outcome)]
    /\ weatherPopup' = IF weatherLog'.source = "null" THEN "could_not_load"
                       ELSE "weather"
    /\ UNCHANGED <<currentData, climateMarkers, loads, lastLoad>>
    /\ UNCHANGED <<form, emissions, liveEstimate, resultDiv, suggestions,
                   alerts, chart, carbonCalculatorData, carbonHistory,
                   inflight, clock, nSaved, saveLog>>

---------------------------------------------------------------------------
(* Specifications *)

\* the page after the constructor has run initializeForm()
Init ==
    /\ form \in SavedForms
    /\ emissions = SubmittedEmissions[form]
    /\ liveEstimate = LiveEstimateOf(emissions)
    /\ resultDiv = "empty"
    /\ suggestions = <<>>
    /\ alerts = <<>>
    /\ chart = NoChart
    /\ carbonCalculatorData = NoData
    /\ carbonHistory = <<>>
    /\ inflight = <<>>
    /\ clock = 0
    /\ nSaved = 0
    /\ saveLog = NoLog
    /\ InitMap

Next ==
    \/ \E ok \in BOOLEAN : handleSubmit(ok)
    \/ \E i \in 1..MaxInflight, j \in BOOLEAN, ok \in BOOLEAN :
           RemoteOk(i, j, ok)
    \/ \E i \in 1..MaxInflight, ok \in BOOLEAN : RemoteNotOk(i, ok)
    \/ \E i \in 1..MaxInflight, ok \in BOOLEAN : RemoteThrow(i, ok)
    \/ AlertExpire
    \/ Tick

Spec == Init /\ [][Next]_vars

\* the estimator applied to every form of FormInputs
InitCalc ==
    /\ form \in FormInputs
    /\ emissions = NoEmissions
    /\ liveEstimate = NoEstimate
    /\ resultDiv = "empty"
    /\ suggestions = <<>>
    /\ alerts = <<>>
    /\ chart = NoChart
    /\ carbonCalculatorData = NoData
    /\ carbonHistory = <<>>
    /\ inflight = <<>>
    /\ clock = 0
    /\ nSaved = 0
    /\ saveLog = NoLog
    /\ InitMap

NextCalc == updateLiveEstimate

SpecCalc == InitCalc /\ [][NextCalc]_vars

\* the page after the constructor has run, with or without the form
InitPage ==
    /\ form \in SubmitForms \cup {NoForm}
    /\ emissions = IF form = NoForm THEN NoEmissions ELSE SubmittedEmissions[form]
    /\ liveEstimate =
           IF form = NoForm THEN NoEstimate ELSE LiveEstimateOf(emissions)
    /\ resultDiv = "empty"
    /\ suggestions = <<>>
    /\ alerts = <<>>
    /\ chart = NoChart
    /\ carbonCalculatorData = NoData
    /\ carbonHistory = <<>>
    /\ inflight = <<>>
    /\ clock = 0
    /\ nSaved = 0
    /\ saveLog = NoLog
    /\ InitMap

\* a filled-in form is saved by a submit and restored by a page load
InitReload ==
    /\ form \in FilledForms
    /\ emissions = NoEmissions
    /\ liveEstimate = NoEstimate
    /\ resultDiv = "empty"
    /\ suggestions = <<>>
    /\ alerts = <<>>
    /\ chart = NoChart
    /\ carbonCalculatorData = NoData
    /\ carbonHistory = <<>>
    /\ inflight = <<>>
    /\ clock = 0
    /\ nSaved = 0
    /\ saveLog = NoLog
    /\ InitMap

NextReload == saveFormData \/ restoreFormData

SpecReload == InitReload /\ [][NextReload]_vars

\* the map page, which has no calculator form
InitMapPage ==
    /\ form = NoForm
    /\ emissions = NoEmissions
    /\ liveEstimate = NoEstimate
    /\ resultDiv = "empty"
    /\ suggestions = <<>>
    /\ alerts = <<>>
    /\ chart = NoChart
    /\ carbonCalculatorData = NoData
    /\ carbonHistory = <<>>
    /\ inflight = <<>>
    /\ clock = 0
    /\ nSaved = 0
    /\ saveLog = NoLog
    /\ InitMap

NextMap ==
    \/ \E a \in ClimateAnswers : loadClimateData(a)
    \/ \E i \in 1..MaxLoads : ClimateDataArrives(i)
    \/ MapClick
    \/ \E i \in 1..MaxClicks, o \in WeatherOutcomes : WeatherArrives(i, o)

SpecMap == InitMapPage /\ [][NextMap]_vars

\* the form is edited and submitted; the saves succeed remotely, or locally
\* up to MaxPageSaves times
NextPage ==
    \/ \E f \in SubmitForms : OnInput(f)
    \/ CallWithoutForm
    \/ \E ok \in BOOLEAN : handleSubmit(ok)
    \/ \E i \in 1..MaxInflight : RemoteOk(i, TRUE, TRUE)
    \/ \E i \in 1..MaxInflight : nSaved < MaxPageSaves /\ RemoteNotOk(i, TRUE)

SpecPage == InitPage /\ [][NextPage]_vars

---------------------------------------------------------------------------
(* Properties of the estimator (checked under SpecCalc) *)

Computed == emissions # NoEmissions

\* household_size parses to nothing, to zero or to a negative number
HouseholdSizeUnusable(text) ==
    LET p == parseInt(text) IN IsNaN(p) \/ p.n <= 0

\* a finite Number compared with an integer
Below(v, k) == v.n < k * v.d
AtLeast(v, k) == v.n >= k * v.d

\* C1: the total of every breakdown is the sum of its transport, electricity,
\* diet and waste values as they are reported, none of them rounded or
\* adjusted before the summation.
C1_TotalIsSum ==
    Computed =>
        emissions.total =
            Add(Add(Add(emissions.transport, emissions.electricity),
                    emissions.diet), emissions.waste)

\* a breakdown of four positive categories whose sum is not a whole number
C1_Witness ==
    /\ Computed
    /\ IsFinite(emissions.total) /\ emissions.total.d > 1
    /\ \A c \in {emissions.transport, emissions.electricity, emissions.diet,
                 emissions.waste} : IsFinite(c) /\ c.n > 0

\* C2: perCapita of every breakdown is its total divided by the householdSize
\* it reports.
C2_PerCapitaIsTotalOverHousehold ==
    Computed =>
        emissions.perCapita = Div(emissions.total, emissions.householdSize)

\* a household of three whose per-capita figure is a third of a finite total
C2_Witness ==
    /\ Computed
    /\ emissions.householdSize = IntNum(3)
    /\ IsFinite(emissions.total) /\ emissions.total.n > 0
    /\ emissions.perCapita # emissions.total

\* C3: householdSize is 1 whenever household_size is absent, unparseable,
\* zero or negative, and it is always a positive integer.
C3_HouseholdSizeDefault ==
    Computed =>
        /\ HouseholdSizeUnusable(form.household_size)
               => emissions.householdSize = IntNum(1)
        /\ emissions.householdSize.t = "num"
        /\ emissions.householdSize.d = 1
        /\ emissions.householdSize.n > 0

\* C4: the divisor of the electricity value and of perCapita, which is the
\* householdSize of the breakdown, is never 0 (nor NaN).
C4_DivisorNeverZero ==
    Computed =>
        /\ emissions.householdSize.t = "num"
        /\ emissions.householdSize.n # 0

\* the field holds "0" and the divisor used is 1
C4_Witness ==
    /\ Computed
    /\ form.household_size = <<"0">>
    /\ emissions.householdSize = IntNum(1)

\* C5: the level follows from perCapita by half-open bands: below 2000 low,
\* from 2000 and below 5000 moderate, from 5000 and below 10000 high, from
\* 10000 on very_high; 2000, 5000 and 10000 belong to the upper band.
C5_LevelBands ==
    Computed /\ IsFinite(emissions.perCapita) =>
        LET p == emissions.perCapita
            level == emissions.emissionLevel.level
        IN  /\ Below(p, 2000) => level = "low"
            /\ AtLeast(p, 2000) /\ Below(p, 5000) => level = "moderate"
            /\ AtLeast(p, 5000) /\ Below(p, 10000) => level = "high"
            /\ AtLeast(p, 10000) => level = "very_high"
            /\ p = IntNum(2000) => level = "moderate"
            /\ p = IntNum(5000) => level = "high"
            /\ p = IntNum(10000) => level = "very_high"

\* a breakdown whose perCapita is exactly 2000
C5_Witness ==
    /\ Computed
    /\ emissions.perCapita = IntNum(2000)
    /\ emissions.emissionLevel.level = "moderate"

\* C6: for every input the four category values, the total and perCapita of
\* the breakdown are Numbers other than NaN.
C6_AlwaysNumbers ==
    Computed =>
        \A v \in {emissions.transport, emissions.electricity, emissions.diet,
                  emissions.waste, emissions.total, emissions.perCapita} :
            v.t = "num" /\ ~IsNaN(v)

\* C7: for every diet_type other than the four diet categories the diet
\* emissions are the meat_medium constant 2000.
C7_UnknownDietIsMeatMedium ==
    Computed /\ form.diet_type \notin
                    {"vegetarian", "meat_light", "meat_medium", "meat_heavy"}
        => emissions.diet = IntNum(2000)

\* C8: for every renewable_energy other than none, some, most and all the
\* electricity emissions are those of renewable_energy = none with the same
\* usage and household size.
C8_UnknownRenewableIsNone ==
    Computed /\ form.renewable_energy \notin {"none", "some", "most", "all"}
        => emissions.electricity =
               calculateEmissions([form EXCEPT !.renewable_energy = "none"]).electricity

\* C9: the worked example: 20 km of petrol car, 200 kWh, no renewables,
\* meat_medium, 10 kg of waste, household of 2 gives transport 124.8,
\* electricity 600, diet 2000, waste 260, total 2984.8, perCapita 1492.4, low.
C9_WorkedExample ==
    Computed /\ form = ExampleForm =>
        /\ emissions.transport = Dec(1248, 1)
        /\ emissions.electricity = IntNum(600)
        /\ emissions.diet = IntNum(2000)
        /\ emissions.waste = IntNum(260)
        /\ emissions.total = Dec(29848, 1)
        /\ emissions.perCapita = Dec(14924, 1)
        /\ emissions.emissionLevel.level = "low"

\* the estimator has been applied to the form of the worked example
C9_Witness ==
    /\ form = ExampleForm
    /\ Computed
    /\ emissions.emissionLevel.label = "Low"

\* a Number that is finite and not negative
NonNegative(v) == IsFinite(v) /\ v.n >= 0

\* the car factors of the estimator, in hundredths of a kilogram per kilometre
CarFactorHundredths ==
    [petrol |-> 12, diesel |-> 13, hybrid |-> 8, electric |-> 5, none |-> 0]

\* C17: for car_type petrol, diesel, hybrid, electric or none and distances
\* and hours that are finite and not negative, transport is
\* carKm * 52 * factor + publicTransportKm * 52 * 0.05 + flightsHours * 800 * 0.2
\* with factor 0.12, 0.13, 0.08, 0.05 and 0; with car_type none the first
\* term is 0 whatever carKm is.
C17_TransportFormula ==
    LET c == NumericField(form.car_km)
        p == NumericField(form.public_transport_km)
        h == NumericField(form.flights_hours)
        t == emissions.transport
    IN  /\ Computed
        /\ form.car_type \in DOMAIN CarFactorHundredths
        /\ NonNegative(c) /\ NonNegative(p) /\ NonNegative(h)
        => /\ IsFinite(t)
           /\ t.n * (100 * c.d * p.d * h.d) =
                  t.d * (c.n * 52 * CarFactorHundredths[form.car_type] * p.d * h.d
                         + p.n * 52 * 5 * c.d * h.d
                         + h.n * 800 * 20 * c.d * p.d)
           /\ form.car_type = "none" =>
                  t.n * (100 * p.d * h.d) =
                      t.d * (p.n * 52 * 5 * h.d + h.n * 800 * 20 * p.d)

\* 20 km by diesel car, 10 km of public transport and 12.5 hours of flights:
\* 135.2 + 26 + 2000
C17_Witness ==
    /\ Computed
    /\ form.car_type = "diesel"
    /\ form.car_km = <<"2", "0">>
    /\ form.public_transport_km = <<"1", "0">>
    /\ form.flights_hours = <<"1", "2", ".", "5">>
    /\ emissions.transport = Dec(21612, 1)

\* the renewable factors of the estimator, in tenths
RenewableFactorTenths == [none |-> 10, some |-> 7, most |-> 3, all |-> 1]

\* C18: for renewable_energy none, some, most or all, electricity is
\* kWh * 12 * 0.5 * renewableFactor divided by householdSize, with factors 1.0,
\* 0.7, 0.3 and 0.1; transport, diet and waste are what they are for any other
\* household_size with the other fields unchanged.
C18_OnlyElectricityPerHousehold ==
    LET k == NumericField(form.electricity_kwh)
        e == emissions.electricity
        other == calculateEmissions([form EXCEPT !.household_size = <<"2">>])
    IN  Computed =>
            /\ form.renewable_energy \in DOMAIN RenewableFactorTenths
                /\ IsFinite(k)
                => /\ IsFinite(e)
                   /\ e.n * (k.d * 100 * emissions.householdSize.n) =
                          e.d * (k.n * 12 * 5
                                 * RenewableFactorTenths[form.renewable_energy])
            /\ emissions.transport = other.transport
            /\ emissions.diet = other.diet
            /\ emissions.waste = other.waste

\* 200 kWh, mostly renewable, household_size "3.9" read as 3: 360 / 3
C18_Witness ==
    /\ Computed
    /\ form.electricity_kwh = <<"2", "0", "0">>
    /\ form.renewable_energy = "most"
    /\ emissions.householdSize = IntNum(3)
    /\ emissions.electricity = IntNum(120)
    /\ IsFinite(emissions.transport) /\ emissions.transport.n > 0

\* C19: transport, electricity, diet and waste of every breakdown are Numbers
\* greater than or equal to 0.
C19_CategoriesNonNegative ==
    Computed =>
        \A v \in {emissions.transport, emissions.electricity, emissions.diet,
                  emissions.waste} :
            v.t = "num" /\ ~IsNaN(v) /\ v.n >= 0

---------------------------------------------------------------------------
(* Properties of the local history (checked under Spec) *)

\* C10: the stored history never holds more than 10 entries, and every save
\* that changes it puts the record of that save at index 0, keeps the earlier
\* entries behind it in their order, and, on a history of 10 entries, drops
\* exactly the last one.
C10_HistoryCapped ==
    /\ [](Len(carbonHistory) <= 10)
    /\ [][carbonHistory' # carbonHistory =>
            /\ Len(carbonHistory') =
                   (IF Len(carbonHistory) < 10 THEN Len(carbonHistory) + 1 ELSE 10)
            /\ carbonHistory'[1].id = clock
            /\ \E i \in 1..Len(inflight) :
                   /\ inflight' = Remove(inflight, i)
                   /\ carbonHistory'[1].total = JsonValue(inflight[i].total)
                   /\ carbonHistory'[1].breakdown.waste =
                          JsonValue(inflight[i].waste)
            /\ \A i \in 2..Len(carbonHistory') :
                   carbonHistory'[i] = carbonHistory[i - 1]
       ]_vars

\* an eleventh entry has been written and ten are stored
C10_Witness ==
    /\ nSaved = HistoryLimit + 1
    /\ Len(carbonHistory) = 10

---------------------------------------------------------------------------
(* Properties of saving a submission (checked under Spec) *)

\* the step finishes a saveToServer call
Settles == saveLog'.turn # saveLog.turn

\* the step finishes the saveToServer call of the pending submission i
SettlesRequest(i) ==
    /\ Settles
    /\ i \in 1..Len(inflight)
    /\ inflight' = Remove(inflight, i)

\* C11: the record a save writes to the local history reads back with the
\* transport, electricity, diet, waste and total values of the breakdown that
\* was saved.
C11_HistoryRoundTrip ==
    [][carbonHistory' # carbonHistory =>
           \E i \in 1..Len(inflight) :
               /\ SettlesRequest(i)
               /\ carbonHistory'[1].breakdown.transport = inflight[i].transport
               /\ carbonHistory'[1].breakdown.electricity =
                      inflight[i].electricity
               /\ carbonHistory'[1].breakdown.diet = inflight[i].diet
               /\ carbonHistory'[1].breakdown.waste = inflight[i].waste
               /\ carbonHistory'[1].total = inflight[i].total
      ]_vars

\* C12: a save whose request is answered with an OK status shows the
\* "saved to your account" alert and leaves the local history as it was; the
\* local history changes only in a save whose request threw or was answered
\* with a non-OK status.
C12_RemoteOkLeavesHistory ==
    [][/\ Settles /\ saveLog'.status = "ok" =>
              /\ carbonHistory' = carbonHistory
              /\ alerts' = Append(alerts, "saved_account")
       /\ carbonHistory' # carbonHistory =>
              Settles /\ saveLog'.status \in {"not_ok", "throw"}
      ]_vars

\* C13: a save whose request threw or was answered with a non-OK status makes
\* exactly one saveToLocalStorage call, and a local save happens only in the
\* step that takes the answered request out of the pending ones, never in the
\* submit step or while the request is pending.
C13_OneLocalSaveAfterFailure ==
    /\ [](saveLog.status \in {"not_ok", "throw"} => Len(saveLog.local) = 1)
    /\ [][/\ Settles /\ saveLog'.local # <<>> =>
                  \E i \in 1..Len(inflight) : SettlesRequest(i)
           /\ ~Settles => carbonHistory' = carbonHistory /\ nSaved' = nSaved
          ]_vars

\* a request answered with a non-OK status was followed by one local save,
\* which stored the first history entry
C13_Witness ==
    /\ saveLog.status = "not_ok"
    /\ saveLog.local = <<"stored">>
    /\ Len(carbonHistory) = 1
    /\ inflight = <<>>

\* C14: a save whose local history write fails shows the "failed to save"
\* alert, leaves the stored history as it was, makes no second local write
\* and sends no further request.
C14_LocalFailureReported ==
    [][Settles /\ (\E k \in 1..Len(saveLog'.local) :
                       saveLog'.local[k] = "failed") =>
           /\ alerts' = Append(alerts, "save_failed")
           /\ carbonHistory' = carbonHistory
           /\ Len(saveLog'.local) = 1
           /\ \E i \in 1..Len(inflight) : inflight' = Remove(inflight, i)
      ]_vars

\* C15: every save that finishes shows exactly one alert: "saved to your
\* account" only if the remote save succeeded, "saved to your browser" only if
\* the local write succeeded, "failed to save" only if the local write failed.
C15_OneAlertNamingThePath ==
    [][Settles =>
           \E msg \in {"saved_account", "saved_browser", "save_failed"} :
               /\ alerts' = Append(alerts, msg)
               /\ msg = "saved_account" =>
                      saveLog'.status = "ok" /\ saveLog'.local = <<>>
               /\ msg = "saved_browser" => saveLog'.local = <<"stored">>
               /\ msg = "save_failed" => saveLog'.local = <<"failed">>
      ]_vars

\* C16: a step adds at most one pending request, and only a submit step, which
\* displays the results, adds one; the step that finishes a save, whatever the
\* answer and whatever the local save did, takes its request out of the
\* pending ones and sends none.
C16_OneRequestPerSubmit ==
    [][/\ Len(inflight') <= Len(inflight) + 1
       /\ Len(inflight') > Len(inflight) =>
              /\ ~Settles
              /\ resultDiv' = "results"
              /\ inflight' = Append(inflight, SubmittedEmissions[form])
       /\ Settles => \E i \in 1..Len(inflight) : inflight' = Remove(inflight, i)
      ]_vars

\* the request of the only submission threw, the local save was made and
\* failed, and no request is pending
C16_Witness ==
    /\ saveLog.status = "throw"
    /\ saveLog.local = <<"failed">>
    /\ carbonCalculatorData = form
    /\ inflight = <<>>

\* C21: no local save is lost: the history holds as many entries as local
\* saves have stored, up to the cap of 10, and a save that stores its record,
\* also while another submission is pending or has just been saved, puts it
\* in front of all the entries stored before, dropping only the one beyond
\* the cap.
C21_NoLostUpdate ==
    /\ [](Len(carbonHistory) =
             (IF nSaved < HistoryLimit THEN nSaved ELSE HistoryLimit))
    /\ [][Settles /\ saveLog'.local = <<"stored">> =>
              /\ Len(carbonHistory') =
                     (IF Len(carbonHistory) < HistoryLimit
                      THEN Len(carbonHistory) + 1 ELSE HistoryLimit)
              /\ \E i \in 1..Len(inflight) :
                     carbonHistory'[1] =
                         JsonEntry(HistoryEntry(inflight[i], clock, clock))
              /\ SubSeq(carbonHistory', 2, Len(carbonHistory')) =
                     SubSeq(carbonHistory, 1, Len(carbonHistory') - 1)
          ]_vars

\* two submissions were pending together, both were saved locally after the
\* second submit, the later one after a failed request, and both records are
\* in the history
C21_Witness ==
    /\ alerts = <<"saved_browser", "saved_browser">>
    /\ saveLog.status \in {"not_ok", "throw"}
    /\ inflight = <<>>
    /\ nSaved = 2
    /\ Len(carbonHistory) = 2

---------------------------------------------------------------------------
(* Properties of the suggestions (checked under SpecPage) *)

\* a Number greater than the integer k
Above(v, k) ==
    /\ v.t = "num"
    /\ \/ v.d > 0 /\ v.n > k * v.d
       \/ v.d = 0 /\ v.n = 1

\* C20: the suggestions a submit displays with its results are, in this
\* order, the Transport one iff transport > 2000, the Electricity one iff
\* electricity > 1500, the Diet one iff diet > 2000, and always the General
\* one last, so between 1 and 4 entries and none for a value at its
\* threshold; generating them leaves the breakdown that is displayed and sent
\* for saving as calculateEmissions returned it.
C20_SuggestionsByThreshold ==
    [][Len(inflight') > Len(inflight) =>
           /\ Len(suggestions') \in 1..4
           /\ suggestions'[Len(suggestions')] = "General"
           /\ SubSeq(suggestions', 1, Len(suggestions') - 1) =
                  SelectSeq(<<"Transport", "Electricity", "Diet">>,
                            LAMBDA cat :
                                \/ cat = "Transport"
                                       /\ Above(emissions'.transport, 2000)
                                \/ cat = "Electricity"
                                       /\ Above(emissions'.electricity, 1500)
                                \/ cat = "Diet" /\ Above(emissions'.diet, 2000))
           /\ emissions'.transport = IntNum(2000) =>
                  \A k \in 1..Len(suggestions') : suggestions'[k] # "Transport"
           /\ emissions'.electricity = IntNum(1500) =>
                  \A k \in 1..Len(suggestions') : suggestions'[k] # "Electricity"
           /\ emissions'.diet = IntNum(2000) =>
                  \A k \in 1..Len(suggestions') : suggestions'[k] # "Diet"
           /\ emissions' = SubmittedEmissions[form]
           /\ inflight' = Append(inflight, emissions')
      ]_vars

\* results whose transport, electricity and diet are exactly 2000, 1500 and
\* 2000 are displayed with the General suggestion alone
C20_Witness ==
    /\ resultDiv = "results"
    /\ emissions.transport = IntNum(2000)
    /\ emissions.electricity = IntNum(1500)
    /\ emissions.diet = IntNum(2000)
    /\ suggestions = <<"General">>

---------------------------------------------------------------------------
(* Properties of the page (checked under SpecPage) *)

C23_InputOnlyRecomputesEstimate ==
    [][form' # form =>
          /\ liveEstimate' = LiveEstimateOf(SubmittedEmissions[form'])
          /\ carbonHistory' = carbonHistory
          /\ carbonCalculatorData' = carbonCalculatorData
          /\ inflight' = inflight
          /\ saveLog' = saveLog
          /\ nSaved' = nSaved]_vars

\* the form was edited after a submit stored other form data and a request
\* is pending
C23_Witness ==
    /\ form # NoForm
    /\ carbonCalculatorData # NoData
    /\ carbonCalculatorData # form
    /\ inflight # <<>>
    /\ liveEstimate = LiveEstimateOf(SubmittedEmissions[form])

\* C25: after every updateChart at most one chart that is not destroyed
\* exists, this.chart is null or a chart that is not destroyed, and destroy()
\* was never called on a destroyed chart.
C25_OneLiveChart ==
    /\ chart.live <= 1
    /\ chart.ref \in {"null", "live"}
    /\ ~chart.twice

---------------------------------------------------------------------------
(* Properties of a whole submission (checked under Spec) *)

\* C24: every submit of a present form, whether or not the local store works,
\* ends its synchronous part with the results on display and its one save
\* request issued, whose settling is the terminal persistence outcome.
C24_SubmitDisplaysThenPersists ==
    [][(resultDiv' # resultDiv \/ Len(inflight') > Len(inflight)) =>
           /\ resultDiv' = "results"
           /\ inflight' = Append(inflight, SubmittedEmissions[form])]_vars

\* C27: the ids of the stored history are pairwise distinct and do not
\* increase from index 0 on.
C27_DistinctOrderedIds ==
    \A i, j \in 1..Len(carbonHistory) :
        i < j => /\ carbonHistory[i].id # carbonHistory[j].id
                 /\ carbonHistory[i].id >= carbonHistory[j].id

---------------------------------------------------------------------------
(* Properties of the saved form data (checked under SpecReload) *)

\* C26: restoreFormData on the page load after a submit gives every control
\* (number input, select, checkboxes, radio group) the value and the checked
\* state it had when saveFormData stored the form.
C26_FormDataRoundTrip ==
    [][/\ carbonCalculatorData = FormDataOf(form)
       /\ carbonCalculatorData' = carbonCalculatorData
       => form' = form]_vars

---------------------------------------------------------------------------
(* Properties of the climate map (checked under SpecMap) *)

\* the records loadClimateData keeps of an answer
DataOf(a) == IF a.kind = "list" THEN a.data ELSE <<>>

\* C28: once no loadClimateData call is pending, currentData holds the
\* records of the answer to the call issued last, and the markers are those
\* of that answer when it has records, whatever the order in which the
\* answers arrived.
C28_LastIssuedLoadWins ==
    loads = <<>> =>
        /\ currentData = DataOf(lastLoad)
        /\ DataOf(lastLoad) # <<>> =>
               climateMarkers = MarkersOf(DataOf(lastLoad))

\* C29: after a loadClimateData call has completed the markers are those of
\* the records of currentData that have a region with latitude and
\* longitude, so none after an empty list, a value that is not a list or a
\* failed request.
C29_MarkersMatchCurrentData ==
    [][Len(loads') < Len(loads) =>
           climateMarkers' = MarkersOf(currentData')]_vars

\* C30: fetchWeatherByCoordinates returns mock data only after a network
\* error or a non-OK answer, and every map click that has finished shows a
\* weather popup.
C30_MockOnlyOnFailure ==
    /\ weatherLog.source = "mock" =>
           weatherLog.outcome \in {"network_error", "not_ok"}
    /\ weatherPopup \in {"none", "weather"}

===========================================================================
